---- MODULE Spec2Model ----
(***************************************************************************)
(* PDFbhai: the document-assembly pipeline (generateFinalPdf and its       *)
(* helper processPageImage, services/pdfService) and the Dashboard that    *)
(* drives it (handleDownload and the page-list updaters).                  *)
(*                                                                         *)
(* One action is one run-to-completion block of JavaScript: the code that  *)
(* runs when an awaited promise settles, up to the next await.  User       *)
(* events are separate tasks and can only run between such blocks.         *)
(***************************************************************************)
EXTENDS Integers, Sequences, FiniteSets, TLC

(* ------------------------------ bounds -------------------------------- *)

\* longest page list handed to the assembler
MaxPages == 9
\* most pages that start out unselected
MaxUnselected == 1
\* longest page list of the Dashboard when edits interleave with a download
MaxUiPages == 2
\* most Dashboard edits in one behaviour
MaxEdits == 2
\* most rotations, or most drags, in one behaviour of the list editors
MaxTurns == 4
\* longest page list of the list editors
MaxListPages == 3
\* most applications of the filter transform to one canvas
MaxApplies == 2
\* longest page list when the geometry of the sheets is examined
MaxLayoutPages == 6
MaxFetches == 2

(* --------------------------- small helpers ---------------------------- *)

Min(a, b) == IF a < b THEN a ELSE b

\* ceil(a / b) for a >= 0, b > 0
CeilDiv(a, b) == (a + b - 1) \div b

RECURSIVE Concat(_)
Concat(ss) == IF ss = <<>> THEN <<>> ELSE Head(ss) \o Concat(Tail(ss))

\* Array.prototype.slice(from, to) on 0-based indices, to clipped to length
Slice(arr, from, to) ==
  SubSeq(arr, from + 1, Min(to, Len(arr)))

\* a filter whose predicate is always true: nothing is dropped
FilterNothing(arr) == arr

\* Array.prototype.filter(pred) mapped to the selected pages: a NEW array
FilterSelected(arr) == SelectSeq(arr, LAMBDA p : p.isSelected)

(* ------------------------------ state --------------------------------- *)

VARIABLES
  pages,        \* Dashboard state: the ordered PageItem list
  layout,       \* Dashboard state: LayoutSettings
  files,        \* Dashboard state: Record<fileId, UploadedFile>
  isGenerating, \* Dashboard state: download in progress flag
  argPages,     \* generateFinalPdf parameter `pages` (the array passed)
  argLayout,    \* generateFinalPdf parameter `layout`
  pc,           \* where the generateFinalPdf call is suspended
  error,        \* message of the Error the call rejected with
  activePages,  \* local: pages.filter(p => p.isSelected)
  chunkedPages, \* local: the N-up groups
  chunkIdx,     \* local: index (1-based) of the chunk of the sheet loop
  cellIdx,      \* local: i of the inner loop (0-based)
  grid,         \* local: <<cols, rows>> of the sheet being filled
  decodeFailed, \* the Image being awaited fired `error`, not `load`
  snapshot,     \* the values of `pages` and `layout` when the call was made
  edits,        \* number of Dashboard edits so far
  canvas,       \* filter transform: the canvas bitmap [width, height, data]
  original,     \* filter transform: the canvas before any application
  input,        \* filter transform: the canvas before the last application
  filterCfg,    \* filter transform: the PageItem['filters'] applied
  written,      \* filter transform: the values assigned to data[i], in order
  applies,      \* filter transform: number of applications so far
  placed,       \* the options of every page.drawImage / drawRectangle call
  sw,           \* the service worker: its phase, the CacheStorage, the fetch
  log           \* every compositor and document-encoder call, in order

vars == <<pages, layout, files, isGenerating, argPages, argLayout, pc, error,
          activePages, chunkedPages, chunkIdx, cellIdx, grid, decodeFailed,
          snapshot, edits, canvas, original, input, filterCfg, written, applies,
          placed, sw, log>>

dashVars == <<pages, layout, files, edits>>
localVars == <<activePages, chunkedPages, chunkIdx, cellIdx, grid>>
pixelVars == <<canvas, original, input, filterCfg, written, applies>>

(* ------------------------ exact arithmetic ----------------------------- *)

\* The filter and layout arithmetic is JavaScript double arithmetic.  It is modelled in
\* exact rationals <<numerator, denominator>> in lowest terms: the products
\* and sums of the transform are taken exactly, and a value becomes an
\* integer only where the code stores it into the Uint8ClampedArray.

Abs(n) == IF n < 0 THEN -n ELSE n

RECURSIVE GCD(_, _)
GCD(a, b) == IF b = 0 THEN a ELSE GCD(b, a % b)

Rat(n, d) ==
  LET g == GCD(Abs(n), Abs(d))
      sgn == IF d < 0 THEN -1 ELSE 1
  IN <<sgn * (n \div g), sgn * (d \div g)>>

RatInt(n) == <<n, 1>>
RatMul(x, y) == Rat(x[1] * y[1], x[2] * y[2])
RatAdd(x, y) == Rat(x[1] * y[2] + y[1] * x[2], x[2] * y[2])
RatSub(x, y) == RatAdd(x, <<-y[1], y[2]>>)
\* x < n, x > n for an integer n
RatLtInt(x, n) == x[1] < n * x[2]
RatGtInt(x, n) == x[1] > n * x[2]
RatDiv(x, y) == Rat(x[1] * y[2], x[2] * y[1])
RatLe(x, y) == x[1] * y[2] <= y[1] * x[2]
RatMin(x, y) == IF RatLe(x, y) THEN x ELSE y

(* ------------------------------ values -------------------------------- *)

NeutralFilters ==
  [invert |-> FALSE, grayscale |-> FALSE, whiteness |-> 0, blackness |-> 0]

\* drawingDataUrl: 0 stands for undefined, a positive number for a data URL
NoDrawing == 0

PageItem(id, sel, rot, drawing) ==
  [id |-> id, fileId |-> 1, originalPageIndex |-> id - 1, isSelected |-> sel,
   rotation |-> rot, filters |-> NeutralFilters, drawingDataUrl |-> drawing]

\* N-up values: the eight of LayoutSettings and one value outside them
NUpValues == 1 .. 9

EncoderOps == {"create", "addPage", "embedJpg", "drawImage", "drawRectangle", "save"}

\* page.getViewport({ scale }) of page pageIndex of the file: the page size
\* times the scale, in pixels, in general not whole.  The files hold pages
\* of three sizes.
getViewport(pageIndex) ==
  CASE pageIndex % 3 = 0 -> [width |-> Rat(7, 2), height |-> Rat(9, 2)]
    [] pageIndex % 3 = 1 -> [width |-> Rat(8, 1), height |-> Rat(23, 4)]
    [] OTHER -> [width |-> Rat(5, 2), height |-> Rat(5, 2)]

\* assignment of a non-negative number to canvas.width / canvas.height
\* (unsigned long): the fraction is dropped
ToUnsignedLong(x) == x[1] \div x[2]

\* renderPageToThumbnail: the bitmap that is encoded into dataUrl has the
\* canvas' size; the returned width and height are those of the viewport
renderPageToThumbnail(pageIndex) ==
  LET viewport == getViewport(pageIndex)
  IN [bitmap |-> [width |-> ToUnsignedLong(viewport.width),
                  height |-> ToUnsignedLong(viewport.height)],
      width |-> viewport.width,
      height |-> viewport.height]

\* the canvas is sized as for an unrotated page whatever the rotation
compositeSizeNoSwap(p) ==
  LET r == renderPageToThumbnail(p.originalPageIndex)
  IN [width |-> ToUnsignedLong(r.width), height |-> ToUnsignedLong(r.height)]

\* processPageImage: the size of the canvas the page is composited on
compositeSize(p) ==
  LET r == renderPageToThumbnail(p.originalPageIndex)
      isRotated90or270 == p.rotation = 90 \/ p.rotation = 270
  IN [width |-> ToUnsignedLong(IF isRotated90or270 THEN r.height ELSE r.width),
      height |-> ToUnsignedLong(IF isRotated90or270 THEN r.width ELSE r.height)]

\* what processPageImage bakes into the JPEG of a page, and the JPEG's size
Baked(p) ==
  [rotation |-> p.rotation, filters |-> p.filters, drawing |-> p.drawingDataUrl,
   width |-> compositeSize(p).width, height |-> compositeSize(p).height]

NoImage ==
  [rotation |-> 0, filters |-> NeutralFilters, drawing |-> NoDrawing,
   width |-> 0, height |-> 0]

\* one logged call: op, the page it is for, the sheet (1-based), the cell
Ev(op, id, sheet, col, row, img) ==
  [op |-> op, id |-> id, sheet |-> sheet, col |-> col, row |-> row, img |-> img]

EvCreate == Ev("create", 0, 0, 0, 0, NoImage)
EvAddPage(sheet) == Ev("addPage", 0, sheet, 0, 0, NoImage)
EvSave == Ev("save", 0, 0, 0, 0, NoImage)

(* ----------------------- applyFiltersToContext ------------------------- *)

\* a multiplier that drops the `1 +`
brightnessMultNoUnit(whiteness) == Rat(whiteness, 100)

\* const brightnessMult = 1 + (whiteness / 100)
brightnessMult(whiteness) == RatAdd(RatInt(1), Rat(whiteness, 100))

\* const contrastMult = 1 + (blackness / 100)
contrastMult(blackness) == RatAdd(RatInt(1), Rat(blackness, 100))

\* const intercept = 128 * (1 - contrastMult)
intercept(blackness) == RatMul(RatInt(128), RatSub(RatInt(1), contrastMult(blackness)))

\* a grayscale step that assigns the luma to the red channel only
grayscaleStepRedOnly(rgb) ==
  LET avg == Rat(299 * rgb[1][1], 1000 * rgb[1][2])
  IN <<RatAdd(RatAdd(avg, RatMul(Rat(587, 1000), rgb[2])), RatMul(Rat(114, 1000), rgb[3])),
       rgb[2], rgb[3]>>

\* const avg = 0.299 * r + 0.587 * g + 0.114 * b; r = avg; g = avg; b = avg
grayscaleStep(rgb) ==
  LET avg == RatAdd(RatAdd(RatMul(Rat(299, 1000), rgb[1]), RatMul(Rat(587, 1000), rgb[2])),
                    RatMul(Rat(114, 1000), rgb[3]))
  IN <<avg, avg, avg>>

\* an inversion about 256 instead of 255
invertChannelOffByOne(c) == RatSub(RatInt(256), c)

\* r = 255 - r
invertChannel(c) == RatSub(RatInt(255), c)

\* a clamp without the upper limit: Math.max(0, r)
clampNoUpper(v) == IF RatLtInt(v, 0) THEN RatInt(0) ELSE v

\* Math.min(255, Math.max(0, r))
clamp(v) ==
  LET lo == IF RatGtInt(v, 0) THEN v ELSE RatInt(0)
  IN IF RatLtInt(lo, 255) THEN lo ELSE RatInt(255)

\* the body of the loop with the inversion moved after the contrast step
filterPixelInvertLast(rgb, filters) ==
  LET gray == IF filters.grayscale THEN grayscaleStep(rgb) ELSE rgb
      bright == [c \in 1 .. 3 |-> RatMul(gray[c], brightnessMult(filters.whiteness))]
      contrast == [c \in 1 .. 3 |->
                     RatAdd(RatMul(bright[c], contrastMult(filters.blackness)),
                            intercept(filters.blackness))]
      inv == IF filters.invert THEN [c \in 1 .. 3 |-> invertChannel(contrast[c])] ELSE contrast
  IN [c \in 1 .. 3 |-> clamp(inv[c])]

\* the body of the loop for one pixel: the three values assigned to data[i],
\* data[i + 1], data[i + 2]
filterPixel(rgb, filters) ==
  LET gray == IF filters.grayscale THEN grayscaleStep(rgb) ELSE rgb
      inv == IF filters.invert THEN [c \in 1 .. 3 |-> invertChannel(gray[c])] ELSE gray
      bright == [c \in 1 .. 3 |-> RatMul(inv[c], brightnessMult(filters.whiteness))]
      contrast == [c \in 1 .. 3 |->
                     RatAdd(RatMul(bright[c], contrastMult(filters.blackness)),
                            intercept(filters.blackness))]
  IN [c \in 1 .. 3 |-> clamp(contrast[c])]

\* the assignment data[i] = v of a Uint8ClampedArray: clamp to 0..255 and
\* round to the nearest integer, a tie going to the even one
storeSample(v) ==
  LET q == v[1] \div v[2]
      r == v[1] % v[2]
  IN IF RatLtInt(v, 0) THEN 0
     ELSE IF RatGtInt(v, 255) THEN 255
     ELSE IF 2 * r < v[2] THEN q
     ELSE IF 2 * r > v[2] THEN q + 1
     ELSE IF q % 2 = 0 THEN q ELSE q + 1

\* a loop that steps by the three colour samples, as over an RGB buffer
pixelStrideRGB == 4 - 1

\* for (let i = 0; i < data.length; i += 4)
pixelStride == 4

\* the data sample at 0-based index k, NaN (stored as 0) beyond the end
sampleAt(data, k) == IF k < Len(data) THEN RatInt(data[k + 1]) ELSE RatInt(0)

\* the writes of the loop over `data`: [index, value], in program order
loopWrites(data, filters) ==
  LET iterations == (Len(data) + pixelStride - 1) \div pixelStride
      px(m) == filterPixel(<<sampleAt(data, m * pixelStride),
                             sampleAt(data, m * pixelStride + 1),
                             sampleAt(data, m * pixelStride + 2)>>, filters)
  IN [w \in 1 .. 3 * iterations |->
        [index |-> ((w - 1) \div 3) * pixelStride + ((w - 1) % 3),
         value |-> px((w - 1) \div 3)[((w - 1) % 3) + 1]]]

\* the data after the loop: a sample keeps its value unless it was written
dataAfter(data, writes) ==
  [k \in 1 .. Len(data) |->
     IF \E w \in 1 .. Len(writes) : writes[w].index = k - 1
     THEN storeSample(writes[CHOOSE w \in 1 .. Len(writes) : writes[w].index = k - 1].value)
     ELSE data[k]]

\* applyFiltersToContext(ctx, width, height, filters): getImageData of the
\* width x height region at the origin, the loop, putImageData at the origin
applyFiltersToContext(ctx, width, height, filters) ==
  [width |-> ctx.width, height |-> ctx.height,
   data |-> dataAfter(ctx.data, loopWrites(ctx.data, filters))]

\* step 4 of processPageImage on its canvas
ApplyFilters ==
  /\ applies < MaxApplies
  /\ applies' = applies + 1
  /\ input' = canvas
  /\ written' = loopWrites(canvas.data, filterCfg)
  /\ canvas' = applyFiltersToContext(canvas, canvas.width, canvas.height, filterCfg)
  /\ UNCHANGED <<original, filterCfg, dashVars, isGenerating, argPages, argLayout, pc,
                 error, localVars, decodeFailed, snapshot, placed, sw, log>>

(* --------------------- pure parts of generateFinalPdf ------------------ *)

\* the chunk loop: for (i = 0; i < length; i += itemsPerPage) push(slice(i, i + itemsPerPage))
RECURSIVE ChunkFrom(_, _, _)
ChunkFrom(arr, itemsPerPage, i) ==
  IF i < Len(arr)
  THEN <<Slice(arr, i, i + itemsPerPage)>> \o ChunkFrom(arr, itemsPerPage, i + itemsPerPage)
  ELSE <<>>

\* a chunk loop bounded by `i + itemsPerPage <= length`: a short tail is lost
RECURSIVE ChunkFullOnly(_, _, _)
ChunkFullOnly(arr, itemsPerPage, i) ==
  IF i + itemsPerPage <= Len(arr)
  THEN <<Slice(arr, i, i + itemsPerPage)>> \o ChunkFullOnly(arr, itemsPerPage, i + itemsPerPage)
  ELSE <<>>

ChunkPagesFullOnly(arr, itemsPerPage) ==
  IF Len(arr) < itemsPerPage THEN <<arr>> ELSE ChunkFullOnly(arr, itemsPerPage, 0)

ChunkPages(arr, itemsPerPage) == ChunkFrom(arr, itemsPerPage, 0)

\* a grid switch without the cases 5 and 7: both fall to the default
gridForNoOddCases(itemsPerPage) ==
  CASE itemsPerPage = 1 -> <<1, 1>>
    [] itemsPerPage = 2 -> <<1, 2>>
    [] itemsPerPage = 3 -> <<1, 3>>
    [] itemsPerPage = 4 -> <<2, 2>>
    [] itemsPerPage = 6 -> <<2, 3>>
    [] itemsPerPage = 8 -> <<2, 4>>
    [] OTHER -> <<1, 1>>

\* a grid switch that stacks five pages in one column
gridForFiveStacked(itemsPerPage) ==
  IF itemsPerPage = 5 THEN <<1, 5>> ELSE gridForNoOddCases(itemsPerPage)

\* the grid switch: <<cols, rows>>
\* seven pages on the two by three grid of six
gridForSevenOnSix(itemsPerPage) ==
  CASE itemsPerPage = 1 -> <<1, 1>>
    [] itemsPerPage = 2 -> <<1, 2>>
    [] itemsPerPage = 3 -> <<1, 3>>
    [] itemsPerPage = 4 -> <<2, 2>>
    [] itemsPerPage \in {5, 6, 7} -> <<2, 3>>
    [] itemsPerPage = 8 -> <<2, 4>>
    [] OTHER -> <<1, 1>>

gridFor(itemsPerPage) ==
  CASE itemsPerPage = 1 -> <<1, 1>>
    [] itemsPerPage = 2 -> <<1, 2>>
    [] itemsPerPage = 3 -> <<1, 3>>
    [] itemsPerPage = 4 -> <<2, 2>>
    [] itemsPerPage = 5 -> <<2, 3>>
    [] itemsPerPage = 6 -> <<2, 3>>
    [] itemsPerPage = 7 -> <<2, 4>>
    [] itemsPerPage = 8 -> <<2, 4>>
    [] OTHER -> <<1, 1>>

(* ------------------------- generateFinalPdf --------------------------- *)

\* the throw leaves generateFinalPdf; handleDownload catches it, alerts, and
\* its finally block clears the flag
Reject(msg) ==
  /\ pc' = "rejected"
  /\ error' = msg
  /\ isGenerating' = FALSE

\* an in-place removal of the unselected pages (splice) instead of filter
ReceiverAfterSplice(arr) == SelectSeq(arr, LAMBDA p : p.isSelected)

\* Array.prototype.filter leaves its receiver as it was
ReceiverAfterFilter(arr) == arr

\* every page of the chunk started at once (chunk.map(processPageImage))
composeStartsEager(chunk, i) == IF i = 0 THEN chunk ELSE <<>>

\* the pages whose processPageImage is called on reaching cell i of a chunk
composeStarts(chunk, i) == <<chunk[i + 1]>>

StartEvents(chunk, i, sheet) ==
  LET ps == composeStarts(chunk, i)
  IN [k \in 1 .. Len(ps) |-> Ev("composeStart", ps[k].id, sheet, 0, 0, NoImage)]

\* entry of the sheet loop body for chunk c: addPage, the grid switch, and
\* the first processPageImage call up to its first await
EnterChunk(chunks, c, lg) ==
  /\ chunkIdx' = c
  /\ cellIdx' = 0
  /\ grid' = gridFor(argLayout.nUp)
  /\ log' = lg \o <<EvAddPage(c)>> \o StartEvents(chunks[c], 0, c)
  /\ pc' = "raster"

\* generateFinalPdf(pages, files, layout) up to `await PDFDocument.create()`
generateFinalPdf(ps, lay) ==
  /\ argPages' = ps
  /\ argLayout' = lay
  /\ log' = <<EvCreate>>
  /\ placed' = <<>>
  /\ pc' = "create"
  /\ error' = "none"
  /\ activePages' = <<>>
  /\ chunkedPages' = <<>>
  /\ chunkIdx' = 0
  /\ cellIdx' = 0
  /\ grid' = <<0, 0>>
  /\ decodeFailed' = FALSE

\* the Download button stays enabled while a download is running
handleDownloadAlwaysEnabled ==
  /\ isGenerating' = TRUE
  /\ snapshot' = [pages |-> pages, layout |-> layout]
  /\ generateFinalPdf(pages, layout)
  /\ UNCHANGED <<dashVars, pixelVars, sw>>

\* Dashboard: the Download button, disabled while isGenerating
handleDownload ==
  /\ ~isGenerating
  /\ isGenerating' = TRUE
  /\ snapshot' = [pages |-> pages, layout |-> layout]
  /\ generateFinalPdf(pages, layout)
  /\ UNCHANGED <<dashVars, pixelVars, sw>>

\* PDFDocument.create() resolved: filter, empty check, chunking, first sheet
CreateDone ==
  /\ pc = "create"
  /\ LET act == FilterSelected(argPages)
         chunks == ChunkPages(act, argLayout.nUp)
     IN /\ argPages' = ReceiverAfterFilter(argPages)
        /\ IF Len(act) = 0
           THEN /\ Reject("No pages selected")
                /\ UNCHANGED <<localVars, log>>
           ELSE /\ activePages' = act
                /\ chunkedPages' = chunks
                /\ EnterChunk(chunks, 1, log)
                /\ UNCHANGED <<error, isGenerating>>
  /\ UNCHANGED <<dashVars, pixelVars, sw, placed, snapshot, argLayout, decodeFailed>>

pageItem == chunkedPages[chunkIdx][cellIdx + 1]

\* renderPageToThumbnail resolved: img.src = dataUrl, await its load event
RasterOk ==
  /\ pc = "raster"
  /\ pc' = "baseLoad"
  /\ decodeFailed' = FALSE
  /\ UNCHANGED <<dashVars, pixelVars, sw, placed, snapshot, isGenerating, argPages, argLayout, error, localVars, log>>

\* renderPageToThumbnail rejected (malformed source, page out of range)
RasterFail ==
  /\ pc = "raster"
  /\ Reject("raster")
  /\ UNCHANGED <<dashVars, pixelVars, sw, placed, snapshot, argPages, argLayout, localVars, decodeFailed, log>>

\* what one canvas call of processPageImage works with: the rotation of the
\* context (about the canvas centre), the filters applied, the doodle drawn,
\* and the size of the canvas
CanvasCall(op, p, sheet, rotation, filters, drawing) ==
  Ev(op, p.id, sheet, 0, 0,
     [rotation |-> rotation, filters |-> filters, drawing |-> drawing,
      width |-> compositeSize(p).width, height |-> compositeSize(p).height])

\* steps 3 and 4: translate to the centre, rotate, draw the base image,
\* reset the transform, filter the whole canvas
baseSteps(p, sheet) ==
  <<CanvasCall("drawBase", p, sheet, p.rotation, NeutralFilters, NoDrawing),
    CanvasCall("applyFilters", p, sheet, 0, p.filters, NoDrawing)>>

\* the filters run once more after the doodle is drawn
doodleStepsThenFilter(p, sheet) ==
  <<CanvasCall("drawDoodle", p, sheet, p.rotation, NeutralFilters, p.drawingDataUrl),
    CanvasCall("applyFilters", p, sheet, 0, p.filters, NoDrawing)>>

\* step 5: translate to the centre, rotate, draw the doodle, reset
doodleSteps(p, sheet) ==
  <<CanvasCall("drawDoodle", p, sheet, p.rotation, NeutralFilters, p.drawingDataUrl)>>

\* the rest of processPageImage after the last image load: encode, return
\* the bytes, and generateFinalPdf's call of pdfDoc.embedJpg
FinishCompose(steps) ==
  /\ log' = log \o steps
             \o <<Ev("composeEnd", pageItem.id, chunkIdx, 0, 0, Baked(pageItem)),
               Ev("embedJpg", pageItem.id, chunkIdx, 0, 0, Baked(pageItem))>>
  /\ pc' = "embed"

\* img.onload fired: canvas, rotation, base draw, filters; then the doodle
BaseLoad ==
  /\ pc = "baseLoad"
  /\ ~decodeFailed
  /\ IF pageItem.drawingDataUrl # NoDrawing
     THEN pc' = "doodleLoad" /\ log' = log \o baseSteps(pageItem, chunkIdx)
     ELSE FinishCompose(baseSteps(pageItem, chunkIdx))
  /\ UNCHANGED <<dashVars, pixelVars, sw, placed, snapshot, isGenerating, argPages, argLayout, error, localVars,
                 decodeFailed>>

\* img.onload fired but canvas.getContext('2d') returned null
CanvasFail ==
  /\ pc = "baseLoad"
  /\ ~decodeFailed
  /\ Reject("Canvas context failed")
  /\ UNCHANGED <<dashVars, pixelVars, sw, placed, snapshot, argPages, argLayout, localVars, decodeFailed, log>>

\* the image fired `error`: only onload was set, so the awaited promise is
\* never settled and the call stays suspended at this await
ImageError ==
  /\ pc \in {"baseLoad", "doodleLoad"}
  /\ ~decodeFailed
  /\ decodeFailed' = TRUE
  /\ UNCHANGED <<dashVars, pixelVars, sw, placed, snapshot, isGenerating, argPages, argLayout, pc, error, localVars, log>>

\* doodleImg.onload fired: draw the doodle rotated, encode
DoodleLoad ==
  /\ pc = "doodleLoad"
  /\ ~decodeFailed
  /\ FinishCompose(doodleSteps(pageItem, chunkIdx))
  /\ UNCHANGED <<dashVars, pixelVars, sw, placed, snapshot, isGenerating, argPages, argLayout, error, localVars,
                 decodeFailed>>

\* cells filled column by column instead of row by row
DrawEventsColumnMajor(p, sheet, i, g, showBorders) ==
  LET c == i \div g[2]
      r == i % g[2]
  IN <<Ev("drawImage", p.id, sheet, c, r, Baked(p))>>
     \o (IF showBorders THEN <<Ev("drawRectangle", p.id, sheet, c, r, NoImage)>>
         ELSE <<>>)

\* the page number is drawn on the sheet when page numbers are switched on
DrawEventsNumbered(p, sheet, i, g, showBorders) ==
  LET c == i % g[1]
      r == i \div g[1]
  IN <<Ev("drawImage", p.id, sheet, c, r, Baked(p))>>
     \o (IF showBorders THEN <<Ev("drawRectangle", p.id, sheet, c, r, NoImage)>>
         ELSE <<>>)
     \o (IF argLayout.showPageNumbers THEN <<Ev("drawText", p.id, sheet, c, r, NoImage)>>
         ELSE <<>>)

\* the calls made for cell i once its image is embedded
DrawEvents(p, sheet, i, g, showBorders) ==
  LET c == i % g[1]
      r == i \div g[1]
  IN <<Ev("drawImage", p.id, sheet, c, r, Baked(p))>>
     \o (IF showBorders THEN <<Ev("drawRectangle", p.id, sheet, c, r, NoImage)>>
         ELSE <<>>)

\* A4 in points, and the page margin
PAGE_WIDTH == Rat(59528, 100)
PAGE_HEIGHT == Rat(84189, 100)
MARGIN == RatInt(20)

cellWidth(g) == RatDiv(RatSub(PAGE_WIDTH, RatMul(MARGIN, RatInt(2))), RatInt(g[1]))
\* the rows share the whole sheet height, margins included
cellHeightWholeSheet(g) == RatDiv(PAGE_HEIGHT, RatInt(g[2]))
cellHeight(g) == RatDiv(RatSub(PAGE_HEIGHT, RatMul(MARGIN, RatInt(2))), RatInt(g[2]))

\* the image scaled to the whole cell, no padding
drawImageOptionsNoPadding(colIndex, rowIndex, g, imgDims) ==
  LET scaleX == RatDiv(cellWidth(g), RatInt(imgDims.width))
      scaleY == RatDiv(cellHeight(g), RatInt(imgDims.height))
      scale == RatMin(scaleX, scaleY)
      drawWidth == RatMul(RatInt(imgDims.width), scale)
      drawHeight == RatMul(RatInt(imgDims.height), scale)
  IN [x |-> RatAdd(RatAdd(MARGIN, RatMul(RatInt(colIndex), cellWidth(g))),
                   RatDiv(RatSub(cellWidth(g), drawWidth), RatInt(2))),
      y |-> RatAdd(RatSub(RatSub(PAGE_HEIGHT, MARGIN),
                          RatMul(RatInt(rowIndex + 1), cellHeight(g))),
                   RatDiv(RatSub(cellHeight(g), drawHeight), RatInt(2))),
      width |-> drawWidth,
      height |-> drawHeight]

\* the options of page.drawImage for the cell (colIndex, rowIndex)
drawImageOptions(colIndex, rowIndex, g, imgDims) ==
  LET scaleX == RatDiv(RatSub(cellWidth(g), RatInt(10)), RatInt(imgDims.width))
      scaleY == RatDiv(RatSub(cellHeight(g), RatInt(10)), RatInt(imgDims.height))
      scale == RatMin(scaleX, scaleY)
      drawWidth == RatMul(RatInt(imgDims.width), scale)
      drawHeight == RatMul(RatInt(imgDims.height), scale)
  IN [x |-> RatAdd(RatAdd(MARGIN, RatMul(RatInt(colIndex), cellWidth(g))),
                   RatDiv(RatSub(cellWidth(g), drawWidth), RatInt(2))),
      y |-> RatAdd(RatSub(RatSub(PAGE_HEIGHT, MARGIN),
                          RatMul(RatInt(rowIndex + 1), cellHeight(g))),
                   RatDiv(RatSub(cellHeight(g), drawHeight), RatInt(2))),
      width |-> drawWidth,
      height |-> drawHeight]

\* the rectangle anchored at the top of the cell instead of its bottom
drawRectangleOptionsTopEdge(colIndex, rowIndex, g) ==
  [x |-> RatAdd(MARGIN, RatMul(RatInt(colIndex), cellWidth(g))),
   y |-> RatSub(RatSub(PAGE_HEIGHT, MARGIN), RatMul(RatInt(rowIndex), cellHeight(g))),
   width |-> cellWidth(g),
   height |-> cellHeight(g)]

\* the options of page.drawRectangle for the cell (colIndex, rowIndex)
drawRectangleOptions(colIndex, rowIndex, g) ==
  [x |-> RatAdd(MARGIN, RatMul(RatInt(colIndex), cellWidth(g))),
   y |-> RatSub(RatSub(PAGE_HEIGHT, MARGIN), RatMul(RatInt(rowIndex + 1), cellHeight(g))),
   width |-> cellWidth(g),
   height |-> cellHeight(g)]

\* the calls of DrawEvents with the options each one is given
PlaceEvents(p, sheet, i, g, showBorders) ==
  LET evs == DrawEvents(p, sheet, i, g, showBorders)
  IN [k \in 1 .. Len(evs) |->
        [op |-> evs[k].op, id |-> evs[k].id, sheet |-> evs[k].sheet,
         col |-> evs[k].col, row |-> evs[k].row,
         imgWidth |-> evs[k].img.width, imgHeight |-> evs[k].img.height,
         box |-> IF evs[k].op = "drawImage"
                 THEN drawImageOptions(evs[k].col, evs[k].row, g, evs[k].img)
                 ELSE drawRectangleOptions(evs[k].col, evs[k].row, g)]]

\* pdfDoc.embedJpg resolved: draw, border, then the next cell, the next
\* sheet, or pdfDoc.save()
EmbedOk ==
  /\ pc = "embed"
  /\ LET drawn == log \o DrawEvents(pageItem, chunkIdx, cellIdx, grid, argLayout.showBorders)
         chunk == chunkedPages[chunkIdx]
     IN IF cellIdx + 1 < Len(chunk)
        THEN /\ cellIdx' = cellIdx + 1
             /\ log' = drawn \o StartEvents(chunk, cellIdx + 1, chunkIdx)
             /\ pc' = "raster"
             /\ UNCHANGED <<chunkIdx, grid>>
        ELSE IF chunkIdx < Len(chunkedPages)
        THEN EnterChunk(chunkedPages, chunkIdx + 1, drawn)
        ELSE /\ log' = drawn \o <<EvSave>>
             /\ pc' = "save"
             /\ UNCHANGED <<chunkIdx, cellIdx, grid>>
  /\ placed' = placed \o PlaceEvents(pageItem, chunkIdx, cellIdx, grid, argLayout.showBorders)
  /\ UNCHANGED <<dashVars, pixelVars, sw, snapshot, isGenerating, argPages, argLayout, error, activePages,
                 chunkedPages, decodeFailed>>

\* pdfDoc.embedJpg rejected (corrupt bytes)
EmbedFail ==
  /\ pc = "embed"
  /\ Reject("embed")
  /\ UNCHANGED <<dashVars, pixelVars, sw, placed, snapshot, argPages, argLayout, localVars, decodeFailed, log>>

\* pdfDoc.save() resolved: the bytes are returned; handleDownload offers the
\* file and its finally block clears the flag
SaveOk ==
  /\ pc = "save"
  /\ pc' = "resolved"
  /\ isGenerating' = FALSE
  /\ UNCHANGED <<dashVars, pixelVars, sw, placed, snapshot, argPages, argLayout, error, localVars, decodeFailed, log>>

SaveFail ==
  /\ pc = "save"
  /\ Reject("save")
  /\ UNCHANGED <<dashVars, pixelVars, sw, placed, snapshot, argPages, argLayout, localVars, decodeFailed, log>>

(* ----------------------- Dashboard page-list updaters ----------------- *)

\* an updater that edits the state array in place: the running call, which
\* holds that same array, sees the edit
SetPagesInPlace(next) ==
  /\ pages' = next
  /\ argPages' = IF isGenerating THEN next ELSE argPages

\* setPages(prev => ...): React replaces the state by the NEW array the
\* updater returns; the array a running generateFinalPdf holds is untouched
SetPages(next) ==
  /\ pages' = next
  /\ argPages' = argPages

\* Array.prototype.findIndex on the id: 0-based, -1 when absent
findIndex(arr, id) ==
  IF \E i \in 1 .. Len(arr) : arr[i].id = id
  THEN (CHOOSE i \in 1 .. Len(arr) :
          /\ arr[i].id = id
          /\ \A j \in 1 .. i - 1 : arr[j].id # id) - 1
  ELSE -1

\* the item is inserted at the target and also left where it was
arrayMoveKeepsItem(arr, from, to) ==
  LET target == IF to < 0 THEN Len(arr) + to ELSE to
      at == Min(target, Len(arr))
  IN SubSeq(arr, 1, at) \o <<arr[from + 1]>> \o SubSeq(arr, at + 1, Len(arr))

\* @dnd-kit/sortable arrayMove(array, from, to): copy, compute the target
\* (a negative `to` counts from the end of the copy BEFORE the removal),
\* remove the item at `from`, insert it at the target
arrayMove(arr, from, to) ==
  LET target == IF to < 0 THEN Len(arr) + to ELSE to
      item == arr[from + 1]
      without == SubSeq(arr, 1, from) \o SubSeq(arr, from + 2, Len(arr))
      at == Min(target, Len(without))
  IN SubSeq(without, 1, at) \o <<item>> \o SubSeq(without, at + 1, Len(without))

PageIds == {pages[i].id : i \in 1 .. Len(pages)}

UiFrame == UNCHANGED <<pixelVars, sw, placed, layout, files, isGenerating, argLayout, pc, error, localVars,
                       decodeFailed, snapshot, log>>

CanEdit == edits < MaxEdits /\ edits' = edits + 1

updateGlobalFilter(key, value) ==
  /\ SetPages([i \in 1 .. Len(pages) |-> [pages[i] EXCEPT !.filters[key] = value]])
  /\ UiFrame

\* a turn that stops at 270
nextRotationCapped(rotation) == Min(rotation + 90, 270)

nextRotation(rotation) == (rotation + 90) % 360

rotatePage(pageId) ==
  /\ SetPages([i \in 1 .. Len(pages) |->
       IF pages[i].id = pageId
       THEN [pages[i] EXCEPT !.rotation = nextRotation(pages[i].rotation)]
       ELSE pages[i]])
  /\ UiFrame

rotateAll(deg) ==
  /\ SetPages([i \in 1 .. Len(pages) |->
       [pages[i] EXCEPT !.rotation = (pages[i].rotation + deg + 360) % 360]])
  /\ UiFrame

toggleSelect(pageId) ==
  /\ SetPages([i \in 1 .. Len(pages) |->
       IF pages[i].id = pageId
       THEN [pages[i] EXCEPT !.isSelected = ~pages[i].isSelected]
       ELSE pages[i]])
  /\ UiFrame

\* the doodle modal's Save, the modal being open on page editingPageId
handleDoodleSave(editingPageId, dataUrl) ==
  /\ SetPages([i \in 1 .. Len(pages) |->
       IF pages[i].id = editingPageId
       THEN [pages[i] EXCEPT !.drawingDataUrl = dataUrl]
       ELSE pages[i]])
  /\ UiFrame

\* overId = 0 stands for a drop with nothing under the pointer (over = null)
handleDragEnd(activeId, overId) ==
  /\ IF activeId # overId
     THEN SetPages(arrayMove(pages, findIndex(pages, activeId), findIndex(pages, overId)))
     ELSE UNCHANGED <<pages, argPages>>
  /\ UiFrame

FilterEdits ==
  {<<"invert", TRUE>>, <<"invert", FALSE>>, <<"grayscale", TRUE>>,
   <<"whiteness", 50>>, <<"blackness", 50>>}

DoodleUrls == {100}

(* ----------------------------- service worker ------------------------- *)

CACHE_NAME == "pdfbhai-v1"
ASSETS_TO_CACHE == {"/", "/index.html", "/logo.png", "/manifest.json"}

\* caches of earlier workers and of other code of the origin
OldCaches == {"pdfbhai-v0", "PDFBHAI-V1", "fonts"}

\* the requests the page makes: a precached asset and a bundle that is not
Urls == {"/index.html", "/assets/index.js"}

\* what a fetch that did not fail resolves to
NetworkResponses ==
  {[status |-> 200, type |-> "basic"], [status |-> 404, type |-> "basic"],
   [status |-> 200, type |-> "cors"], [status |-> 0, type |-> "opaque"]}

NoRequest == "none"

\* pc: the phase of the worker; names: the caches of the origin; stored: the
\* requests the current cache answers; pending: the caches.delete calls not
\* yet resolved; deleted: the caches deleted so far; url, net, background, delivered: the fetch event handled,
\* its network request, whether that request only refreshes the cache, and
\* what respondWith was given
Worker(phase, names) ==
  [pc |-> phase, names |-> names, stored |-> {}, pending |-> {},
   deleted |-> {},
   url |-> NoRequest, net |-> "none", background |-> FALSE,
   delivered |-> "none", fetches |-> 0]

NoWorker == sw = Worker("off", {})

SwFrame ==
  UNCHANGED <<dashVars, pixelVars, isGenerating, argPages, argLayout, pc, error,
              localVars, decodeFailed, snapshot, placed, log>>

\* install: caches.open(CACHE_NAME) creates the cache, addAll is pending
install ==
  /\ sw.pc = "parsed"
  /\ sw' = [sw EXCEPT !.pc = "installing", !.names = @ \cup {CACHE_NAME}]
  /\ SwFrame

InstallOk ==
  /\ sw.pc = "installing"
  /\ sw' = [sw EXCEPT !.pc = "installed", !.stored = ASSETS_TO_CACHE]
  /\ SwFrame

\* one of the assets could not be fetched: the worker is discarded
InstallFail ==
  /\ sw.pc = "installing"
  /\ sw' = [sw EXCEPT !.pc = "redundant"]
  /\ SwFrame

\* activate: caches.keys() is pending
activate ==
  /\ sw.pc = "installed"
  /\ sw' = [sw EXCEPT !.pc = "keys"]
  /\ SwFrame

\* every cache is deleted, the current one too
staleCachesAll(cacheNames) == cacheNames

\* the names the activate handler calls caches.delete on
staleCaches(cacheNames) == {cacheName \in cacheNames : cacheName # CACHE_NAME}

\* caches.keys() resolved: one caches.delete per stale cache, and the
\* Promise.all of none of them is resolved at once
KeysDone ==
  /\ sw.pc = "keys"
  /\ sw' = [sw EXCEPT !.pending = staleCaches(sw.names),
                      !.pc = IF staleCaches(sw.names) = {} THEN "activated"
                             ELSE "deleting"]
  /\ SwFrame

\* one caches.delete resolved; with the last one waitUntil's promise does
DeleteDone ==
  /\ sw.pc = "deleting"
  /\ \E cacheName \in sw.pending :
       sw' = [sw EXCEPT !.names = @ \ {cacheName},
                        !.pending = @ \ {cacheName},
                        !.deleted = @ \cup {cacheName},
                        !.stored = IF cacheName = CACHE_NAME THEN {} ELSE @,
                        !.pc = IF sw.pending = {cacheName} THEN "activated"
                               ELSE "deleting"]
  /\ SwFrame

\* fetch: caches.match(event.request) is pending
fetchEvent(url) ==
  /\ sw.pc \in {"activated", "responded"}
  /\ sw.net # "pending"
  /\ sw.fetches < MaxFetches
  /\ sw' = [sw EXCEPT !.pc = "match", !.url = url, !.net = "none",
                      !.background = FALSE, !.delivered = "none",
                      !.fetches = @ + 1]
  /\ SwFrame

\* caches.match resolved: a cached response is returned at once, fetch only
\* refreshing the cache; without one the fetch is what is returned
MatchDone ==
  /\ sw.pc = "match"
  /\ sw' = IF sw.url \in sw.stored
             THEN [sw EXCEPT !.pc = "responded", !.delivered = "cache",
                             !.net = "pending", !.background = TRUE]
             ELSE [sw EXCEPT !.pc = "network", !.net = "pending"]
  /\ SwFrame

Cacheable(networkResponse) ==
  networkResponse.status = 200 /\ networkResponse.type = "basic"

\* fetch resolved: a cacheable response is put into the current cache
\* (caches.open creates it when missing), the response is what the page gets
\* unless the cached one was returned already
NetworkOk(networkResponse) ==
  /\ sw.net = "pending"
  /\ sw' = [sw EXCEPT !.net = "ok",
                      !.pc = "responded",
                      !.delivered = IF sw.background THEN @ ELSE "network",
                      !.names = IF Cacheable(networkResponse)
                                THEN @ \cup {CACHE_NAME} ELSE @,
                      !.stored = IF Cacheable(networkResponse)
                                 THEN @ \cup {sw.url} ELSE @]
  /\ SwFrame

\* fetch rejected: the catch returns undefined, and respondWith(undefined) is
\* a network error for the page
NetworkFail ==
  /\ sw.net = "pending"
  /\ sw' = [sw EXCEPT !.net = "failed",
                      !.pc = "responded",
                      !.delivered = IF sw.background THEN @ ELSE "error"]
  /\ SwFrame

(* --------------------------- specification ---------------------------- *)

\* page lists of the assembler: ids 1..k in order, at most MaxUnselected of
\* them unselected, page i turned by i quarter turns, the odd pages carrying
\* a doodle
InitPages ==
  { [i \in 1 .. k |-> PageItem(i, i \notin U, 90 * (i % 4),
                               IF i % 2 = 1 THEN i ELSE NoDrawing)] :
      <<k, U>> \in
        { t \in (0 .. MaxPages) \X (SUBSET (1 .. MaxPages)) :
            /\ t[2] \subseteq 1 .. t[1]
            /\ Cardinality(t[2]) <= MaxUnselected } }

InitLayouts ==
  [nUp : NUpValues, showBorders : BOOLEAN, showPageNumbers : {FALSE}]

\* the state of a Dashboard that has not started a download yet
NoCallYet ==
  /\ files = [f \in {1} |-> [id |-> 1, pageCount |-> MaxPages]]
  /\ isGenerating = FALSE
  /\ argPages = <<>>
  /\ argLayout = layout
  /\ pc = "idle"
  /\ error = "none"
  /\ activePages = <<>>
  /\ chunkedPages = <<>>
  /\ chunkIdx = 0
  /\ cellIdx = 0
  /\ grid = <<0, 0>>
  /\ decodeFailed = FALSE
  /\ snapshot = [pages |-> <<>>, layout |-> layout]
  /\ edits = 0
  /\ placed = <<>>
  /\ log = <<>>

\* no canvas is being filtered
NoCanvas ==
  /\ canvas = [width |-> 0, height |-> 0, data |-> <<>>]
  /\ original = canvas
  /\ input = canvas
  /\ filterCfg = NeutralFilters
  /\ written = <<>>
  /\ applies = 0

Init ==
  /\ pages \in InitPages
  /\ layout \in InitLayouts
  /\ NoCallYet
  /\ NoWorker
  /\ NoCanvas

Next ==
  \/ handleDownload
  \/ CreateDone
  \/ RasterOk
  \/ RasterFail
  \/ BaseLoad
  \/ CanvasFail
  \/ ImageError
  \/ DoodleLoad
  \/ EmbedOk
  \/ EmbedFail
  \/ SaveOk
  \/ SaveFail

Spec == Init /\ [][Next]_vars

\* every awaited external step eventually settles one way or the other
FairSpec ==
  /\ Spec
  /\ WF_vars(CreateDone)
  /\ WF_vars(RasterOk \/ RasterFail)
  /\ WF_vars(BaseLoad \/ CanvasFail \/ ImageError)
  /\ WF_vars(DoodleLoad \/ ImageError)
  /\ WF_vars(EmbedFail \/ EmbedOk)
  /\ WF_vars(SaveOk \/ SaveFail)

\* the Dashboard right after import (every page selected, unrotated, neutral
\* filters, no doodle), with edits interleaving with the download
DashInitPages ==
  { [i \in 1 .. k |-> PageItem(i, TRUE, 0, NoDrawing)] : k \in 1 .. MaxUiPages }

DashInit ==
  /\ pages \in DashInitPages
  /\ layout \in [nUp : {1, 2}, showBorders : {TRUE}, showPageNumbers : {FALSE}]
  /\ NoCallYet
  /\ NoWorker
  /\ NoCanvas

UiEdit ==
  \/ \E e \in FilterEdits : CanEdit /\ updateGlobalFilter(e[1], e[2])
  \/ \E id \in PageIds : CanEdit /\ rotatePage(id)
  \/ \E id \in PageIds : CanEdit /\ toggleSelect(id)
  \/ \E id \in PageIds, url \in DoodleUrls : CanEdit /\ handleDoodleSave(id, url)
  \/ \E a \in PageIds, o \in PageIds \cup {0} : CanEdit /\ handleDragEnd(a, o)

DashNext == Next \/ UiEdit

DashSpec == DashInit /\ [][DashNext]_vars

\* the service worker from its installation on: the CacheStorage of the
\* origin holds any of the caches earlier workers left behind
SwInit ==
  /\ pages = <<>>
  /\ layout = [nUp |-> 1, showBorders |-> FALSE, showPageNumbers |-> FALSE]
  /\ NoCallYet
  /\ NoCanvas
  /\ \E old \in SUBSET OldCaches : sw = Worker("parsed", old)

SwNext ==
  \/ install
  \/ InstallOk
  \/ InstallFail
  \/ activate
  \/ KeysDone
  \/ DeleteDone
  \/ \E url \in Urls : fetchEvent(url)
  \/ MatchDone
  \/ \E r \in NetworkResponses : NetworkOk(r)
  \/ NetworkFail

SwSpec == SwInit /\ [][SwNext]_vars

\* the list editors of the Dashboard on their own: the rotate buttons
CanTurn == edits < MaxTurns /\ edits' = edits + 1

ListInit ==
  /\ pages \in {ps \in InitPages : Len(ps) \in 1 .. MaxListPages}
  /\ layout = [nUp |-> 1, showBorders |-> FALSE, showPageNumbers |-> FALSE]
  /\ NoCallYet
  /\ NoWorker
  /\ NoCanvas

RotateNext ==
  \/ \E id \in PageIds : CanTurn /\ rotatePage(id)
  \/ CanTurn /\ rotateAll(90)

RotateSpec == ListInit /\ [][RotateNext]_vars

\* drag and drop of the page grid; 0 is a drop with nothing under the pointer
DragNext ==
  \E a \in PageIds, o \in PageIds \cup {0} : CanTurn /\ handleDragEnd(a, o)

DragSpec == ListInit /\ [][DragNext]_vars

\* the assembler on the shorter page lists, for the geometry of its sheets
LayoutInit ==
  /\ pages \in {ps \in InitPages : Len(ps) <= MaxLayoutPages}
  /\ layout \in [nUp : NUpValues, showBorders : BOOLEAN, showPageNumbers : BOOLEAN]
  /\ NoCallYet
  /\ NoWorker
  /\ NoCanvas

LayoutSpec == LayoutInit /\ [][Next]_vars

\* canvases of the filter transform: RGBA samples, the red sample of the
\* first pixel running over every value, the other samples offset from it
CanvasSizes == {<<1, 1>>, <<2, 1>>}

InitCanvas(v, size) ==
  [width |-> size[1], height |-> size[2],
   data |-> [k \in 1 .. 4 * size[1] * size[2] |->
               (v + 85 * ((k - 1) % 4) + 40 * ((k - 1) \div 4)) % 256]]

\* the slider positions 0 and 100, the ink-saver presets 12 and 50, and a
\* value beyond the sliders
FilterConfigs ==
  [invert : BOOLEAN, grayscale : BOOLEAN, whiteness : {0, 12, 100, 200},
   blackness : {0, 50, 100, 200}]

FilterInit ==
  /\ pages = <<>>
  /\ layout = [nUp |-> 1, showBorders |-> FALSE, showPageNumbers |-> FALSE]
  /\ NoCallYet
  /\ NoWorker
  /\ \E v \in 0 .. 255, size \in CanvasSizes : canvas = InitCanvas(v, size)
  /\ original = canvas
  /\ input = canvas
  /\ filterCfg \in FilterConfigs
  /\ written = <<>>
  /\ applies = 0

FilterSpec == FilterInit /\ [][ApplyFilters]_vars

(* ------------------------------ properties ---------------------------- *)

Calls(ops) == SelectSeq(log, LAMBDA e : e.op \in ops)
CallIds(op) == LET c == Calls({op}) IN [i \in 1 .. Len(c) |-> c[i].id]
HasCall(op, id) == \E i \in 1 .. Len(log) : log[i].op = op /\ log[i].id = id
CallIdx(op, id) == CHOOSE i \in 1 .. Len(log) : log[i].op = op /\ log[i].id = id
IsPrefix(a, b) == Len(a) <= Len(b) /\ a = SubSeq(b, 1, Len(a))

\* the selected pages of a list, in order, and their ids
SelectedOf(ps) == SelectSeq(ps, LAMBDA p : p.isSelected = TRUE)
SelectedIds(ps) == LET a == SelectedOf(ps) IN [i \in 1 .. Len(a) |-> a[i].id]

InFlight == pc \in {"create", "raster", "baseLoad", "doodleLoad", "embed", "save"}
Settled == pc \in {"resolved", "rejected"}

\* C1: a call with no selected page fails with the empty-selection error
\* having made no document-encoder call and started no page composition.
C1_EmptySelectionMakesNoCall ==
  (pc = "rejected" /\ error = "No pages selected")
    => \A i \in 1 .. Len(log) :
         log[i].op \notin EncoderOps \cup {"composeStart", "composeEnd"}

\* C2: for k active pages and n in 1..8 the grouping gives ceil(k/n) groups,
\* all of n items except the last, which holds 1..n, and the groups
\* concatenated are the active pages in order.
C2_Grouping ==
  LET k == Len(activePages)
      n == argLayout.nUp
      g == Len(chunkedPages)
  IN (k > 0 /\ n \in 1 .. 8)
       => /\ activePages = SelectedOf(argPages)
          /\ g = CeilDiv(k, n)
          /\ \A j \in 1 .. g - 1 : Len(chunkedPages[j]) = n
          /\ Len(chunkedPages[g]) \in 1 .. n
          /\ Concat(chunkedPages) = activePages

C2_Witness ==
  /\ Len(activePages) = 7
  /\ argLayout.nUp = 3
  /\ Len(chunkedPages) = 3
  /\ Len(chunkedPages[3]) = 1

\* C3: in a successful call every selected page is composited, embedded and
\* drawn exactly once, in the order of the input list, and at no moment has
\* an unselected page been composited, embedded or drawn.
C3_SelectedPagesOnceInOrder ==
  /\ \A i \in 1 .. Len(log) :
       log[i].id # 0 =>
         \E q \in 1 .. Len(argPages) : argPages[q].id = log[i].id /\ argPages[q].isSelected
  /\ pc = "resolved" =>
       /\ CallIds("composeStart") = SelectedIds(argPages)
       /\ CallIds("composeEnd") = SelectedIds(argPages)
       /\ CallIds("embedJpg") = SelectedIds(argPages)
       /\ CallIds("drawImage") = SelectedIds(argPages)

C3_Witness ==
  /\ pc = "resolved"
  /\ Len(argPages) >= 4
  /\ ~argPages[2].isSelected
  /\ Len(Calls({"drawImage"})) = Len(argPages) - 1

\* C4: the grid of a sheet is the fixed table on pagesPerSheet, whatever the
\* number of items of the group being laid out.
C4_Table(n) ==
  IF n = 1 THEN <<1, 1>> ELSE IF n = 2 THEN <<1, 2>> ELSE IF n = 3 THEN <<1, 3>>
  ELSE IF n = 4 THEN <<2, 2>> ELSE IF n \in {5, 6} THEN <<2, 3>>
  ELSE IF n \in {7, 8} THEN <<2, 4>> ELSE <<1, 1>>

C4_GridIsTheTable ==
  chunkIdx > 0 => grid = C4_Table(argLayout.nUp)

C4_Witness ==
  /\ chunkIdx = 2
  /\ argLayout.nUp = 5
  /\ Len(chunkedPages[chunkIdx]) = 1
  /\ grid = <<2, 3>>
  /\ pc = "embed"

\* C5: compositions start in document order, and the composition of a page
\* starts only after the page before it has been composited, embedded and
\* drawn; so at most one composition is in progress.
C5_SequentialComposition ==
  LET S == CallIds("composeStart")
  IN /\ IsPrefix(S, SelectedIds(argPages))
     /\ Len(S) - Len(Calls({"composeEnd"})) \in {0, 1}
     /\ \A k \in 1 .. Len(S) - 1 :
          /\ HasCall("composeEnd", S[k])
          /\ HasCall("embedJpg", S[k])
          /\ HasCall("drawImage", S[k])
          /\ CallIdx("composeStart", S[k]) < CallIdx("composeEnd", S[k])
          /\ CallIdx("composeEnd", S[k]) < CallIdx("embedJpg", S[k])
          /\ CallIdx("embedJpg", S[k]) < CallIdx("drawImage", S[k])
          /\ CallIdx("drawImage", S[k]) < CallIdx("composeStart", S[k + 1])

C5_Witness ==
  /\ pc = "baseLoad"
  /\ argLayout.nUp = 4
  /\ cellIdx = 2
  /\ Len(Calls({"composeStart"})) = 3
  /\ Len(Calls({"composeEnd"})) = 2

\* C6: a failed rasterization, base-image decode or doodle decode makes the
\* call reject.  Each handler runs to completion with the event that wakes
\* it, so a failure that has happened has already rejected the call.
C6_DecodeFailureRejects ==
  decodeFailed => pc = "rejected"

\* C7: every started call eventually settles, given that every external
\* step eventually succeeds or fails.
C7_EventuallySettles ==
  InFlight ~> Settled

\* C8: generateFinalPdf changes neither the page list, nor any PageItem, nor
\* the files, nor the layout; the array and the layout object it was handed
\* ARE the caller's, so they stay as they were for the whole call.
C8_AssemblyMutatesNothing ==
  [][/\ pages' = pages
     /\ layout' = layout
     /\ files' = files
     /\ isGenerating => (argPages' = argPages /\ argLayout' = argLayout)]_vars

C8_Witness ==
  /\ pc = "rejected"
  /\ error = "embed"
  /\ Len(Calls({"drawImage"})) >= 2
  /\ argPages = pages
  /\ \E i \in 1 .. Len(pages) : ~pages[i].isSelected

\* the encoder calls of a complete run on page list ps with layout lay
ExpectedSheet(act, lay, j) ==
  LET n == lay.nUp
      m == Min(n, Len(act) - (j - 1) * n)
      C == C4_Table(n)[1]
      cell(i) ==
        LET p == act[(j - 1) * n + i]
        IN <<Ev("embedJpg", p.id, j, 0, 0, Baked(p)),
             Ev("drawImage", p.id, j, (i - 1) % C, (i - 1) \div C, Baked(p))>>
           \o (IF lay.showBorders
               THEN <<Ev("drawRectangle", p.id, j, (i - 1) % C, (i - 1) \div C, NoImage)>>
               ELSE <<>>)
  IN <<EvAddPage(j)>> \o Concat([i \in 1 .. m |-> cell(i)])

ExpectedCalls(ps, lay) ==
  LET act == SelectedOf(ps)
  IN IF Len(act) = 0 THEN <<EvCreate>>
     ELSE <<EvCreate>>
          \o Concat([j \in 1 .. CeilDiv(Len(act), lay.nUp) |-> ExpectedSheet(act, lay, j)])
          \o <<EvSave>>

\* C9: Dashboard edits made while a call is in flight do not change its
\* output: the encoder calls are those of the page list and layout as they
\* were when the call was made.
C9_OutputIsOfTheSnapshot ==
  /\ pc # "idle" => IsPrefix(Calls(EncoderOps), ExpectedCalls(snapshot.pages, snapshot.layout))
  /\ pc \in {"save", "resolved"}
       => Calls(EncoderOps) = ExpectedCalls(snapshot.pages, snapshot.layout)

C9_Witness ==
  /\ pc = "save"
  /\ SelectedIds(pages) # SelectedIds(snapshot.pages)
  /\ \E i \in 1 .. Len(pages) : pages[i].rotation # 0
  /\ Len(Calls({"drawImage"})) = 2

\* C10: k active pages and n in 1..8 give ceil(k/n) sheets; sheet j (from 0)
\* draws min(n, k - j*n) images into the cells 0, 1, ... row by row; and 9
\* active pages with n = 4 give sheets of 4, 4 and 1 images, the last one
\* in the top-left cell.
SheetDraws(j) == SelectSeq(log, LAMBDA e : e.op = "drawImage" /\ e.sheet = j)

C10_SheetsAndCells ==
  LET k == Len(SelectedOf(argPages))
      n == argLayout.nUp
      C == IF n <= 3 THEN 1 ELSE 2
  IN (pc \in {"save", "resolved"} /\ n \in 1 .. 8)
       => /\ Len(Calls({"addPage"})) = CeilDiv(k, n)
          /\ \A e \in {log[i] : i \in 1 .. Len(log)} : e.sheet \in 0 .. CeilDiv(k, n)
          /\ \A j \in 1 .. CeilDiv(k, n) :
               LET d == SheetDraws(j)
               IN /\ Len(d) = Min(n, k - (j - 1) * n)
                  /\ \A i \in 1 .. Len(d) :
                       /\ d[i].col = (i - 1) % C
                       /\ d[i].row = (i - 1) \div C
                       /\ d[i].id = SelectedIds(argPages)[(j - 1) * n + i]
          /\ (k = 9 /\ n = 4) =>
               /\ Len(Calls({"addPage"})) = 3
               /\ Len(SheetDraws(1)) = 4
               /\ Len(SheetDraws(2)) = 4
               /\ Len(SheetDraws(3)) = 1
               /\ SheetDraws(3)[1].col = 0
               /\ SheetDraws(3)[1].row = 0

C10_Witness ==
  /\ pc = "resolved"
  /\ Len(SelectedOf(argPages)) = 9
  /\ argLayout.nUp = 4
  /\ Len(Calls({"addPage"})) = 3

\* the cells of the sheet being filled that hold no image, once the call
\* has drawn its last image (the sheet is then the last one)
EmptyCellsOfLastSheet == grid[1] * grid[2] - Len(SheetDraws(chunkIdx))

\* C11 as stated: with pagesPerSheet = 5 the last group has one empty cell
\* only if k mod 5 # 0.
C11_OneEmptyCellOnlyIfRemainder ==
  (pc \in {"save", "resolved"} /\ argLayout.nUp = 5 /\ EmptyCellsOfLastSheet = 1)
    => Len(SelectedOf(argPages)) % 5 # 0

\* C11 amended: with pagesPerSheet = 5 the grid is 2 columns by 3 rows, a
\* group of five leaves exactly the last cell (column 1, row 2) empty, and
\* the last group has exactly one empty cell if and only if k mod 5 = 0;
\* otherwise it has 6 - (k mod 5) empty cells.
C11_FiveUpGrid ==
  LET k == Len(SelectedOf(argPages))
  IN (pc \in {"save", "resolved"} /\ argLayout.nUp = 5)
       => /\ grid = <<2, 3>>
          /\ \A j \in 1 .. chunkIdx - 1 :
               /\ Len(SheetDraws(j)) = 5
               /\ \A i \in 1 .. 5 : <<SheetDraws(j)[i].col, SheetDraws(j)[i].row>> # <<1, 2>>
          /\ (EmptyCellsOfLastSheet = 1) <=> (k % 5 = 0)
          /\ (k % 5 # 0) => EmptyCellsOfLastSheet = 6 - (k % 5)

C11_Witness ==
  /\ pc = "resolved"
  /\ argLayout.nUp = 5
  /\ Len(SelectedOf(argPages)) = 5
  /\ EmptyCellsOfLastSheet = 1

(* ---------------------- properties of the geometry -------------------- *)

PageOf(ps, id) == CHOOSE p \in {ps[i] : i \in 1 .. Len(ps)} : p.id = id
Placed(op) == SelectSeq(placed, LAMBDA e : e.op = op)
\* the cell (col, row) of the grid of n-up: its left edge, bottom edge, size
CellBox(n, col, row) ==
  LET cw == RatDiv(RatSub(PAGE_WIDTH, RatAdd(MARGIN, MARGIN)), RatInt(C4_Table(n)[1]))
      ch == RatDiv(RatSub(PAGE_HEIGHT, RatAdd(MARGIN, MARGIN)), RatInt(C4_Table(n)[2]))
  IN [x |-> RatAdd(MARGIN, RatMul(RatInt(col), cw)),
      y |-> RatSub(RatSub(PAGE_HEIGHT, MARGIN), RatMul(RatInt(row + 1), ch)),
      width |-> cw,
      height |-> ch]

\* C16: a page whose raster bitmap is w wide and h high is composited into
\* an image of size (h, w) when its rotation is 90 or 270 and of size (w, h)
\* when it is 0 or 180.
C16_RotationSwapsSize ==
  \A k \in 1 .. Len(log) :
    log[k].op \in {"composeEnd", "embedJpg", "drawImage"} =>
      LET p == PageOf(argPages, log[k].id)
          r == renderPageToThumbnail(p.originalPageIndex).bitmap
      IN /\ p.rotation \in {90, 270} =>
              log[k].img.width = r.height /\ log[k].img.height = r.width
         /\ p.rotation \in {0, 180} =>
              log[k].img.width = r.width /\ log[k].img.height = r.height

C16_Witness ==
  /\ pc = "resolved"
  /\ \E k \in 1 .. Len(log) :
       /\ log[k].op = "composeEnd" /\ log[k].id = 1
       /\ PageOf(argPages, 1).rotation = 90
       /\ log[k].img.width = 4 /\ log[k].img.height = 3
  /\ \E k \in 1 .. Len(log) :
       /\ log[k].op = "composeEnd" /\ log[k].id = 2
       /\ PageOf(argPages, 2).rotation = 180
       /\ log[k].img.width = 8 /\ log[k].img.height = 5

\* C17: with showBorders one rectangle is drawn for every occupied cell and
\* for no other, and its bounds are the full cell, not those of the scaled
\* image; without showBorders no rectangle is drawn.
C17_BordersOutlineCells ==
  LET images == Placed("drawImage")
      rects == Placed("drawRectangle")
  IN /\ Len(images) + Len(rects) = Len(placed)
     /\ Len(images) = Len(Calls({"drawImage"}))
     /\ Len(rects) = Len(Calls({"drawRectangle"}))
     /\ ~argLayout.showBorders => Len(rects) = 0
     /\ argLayout.showBorders =>
          /\ Len(rects) = Len(images)
          /\ \A k \in 1 .. Len(rects) :
               /\ rects[k].sheet = images[k].sheet
               /\ rects[k].col = images[k].col
               /\ rects[k].row = images[k].row
               /\ rects[k].box = CellBox(argLayout.nUp, rects[k].col, rects[k].row)
               /\ rects[k].box # images[k].box
          /\ \A k, m \in 1 .. Len(rects) :
               (k # m) => <<rects[k].sheet, rects[k].col, rects[k].row>>
                            # <<rects[m].sheet, rects[m].col, rects[m].row>>

C17_Witness ==
  /\ pc = "resolved"
  /\ argLayout.showBorders
  /\ argLayout.nUp = 4
  /\ Len(Placed("drawRectangle")) = 6
  /\ \E k \in 1 .. Len(placed) :
       /\ placed[k].op = "drawRectangle"
       /\ placed[k].sheet = 2 /\ placed[k].col = 1 /\ placed[k].row = 0
       /\ placed[k].box.x = Rat(29764, 100)

\* C20: every image is drawn at the one scale
\* s = min((cellWidth - 10) / imageWidth, (cellHeight - 10) / imageHeight),
\* so in its own aspect ratio, and centred in its cell: the gaps to the left
\* and to the right are equal, those above and below are equal, and each
\* gap is at least 5.
Gaps(e, n) ==
  LET cell == CellBox(n, e.col, e.row)
  IN [left |-> RatSub(e.box.x, cell.x),
      right |-> RatSub(RatAdd(cell.x, cell.width), RatAdd(e.box.x, e.box.width)),
      bottom |-> RatSub(e.box.y, cell.y),
      top |-> RatSub(RatAdd(cell.y, cell.height), RatAdd(e.box.y, e.box.height)),
      cell |-> cell]

C20_ScaledAndCentred ==
  \A k \in 1 .. Len(placed) :
    placed[k].op = "drawImage" =>
      LET e == placed[k]
          gap == Gaps(e, argLayout.nUp)
          s == RatMin(RatDiv(RatSub(gap.cell.width, RatInt(10)), RatInt(e.imgWidth)),
                      RatDiv(RatSub(gap.cell.height, RatInt(10)), RatInt(e.imgHeight)))
      IN /\ e.box.width = RatMul(RatInt(e.imgWidth), s)
         /\ e.box.height = RatMul(RatInt(e.imgHeight), s)
         /\ RatMul(e.box.width, RatInt(e.imgHeight)) = RatMul(e.box.height, RatInt(e.imgWidth))
         /\ gap.left = gap.right
         /\ gap.bottom = gap.top
         /\ ~RatLtInt(gap.left, 5)
         /\ ~RatLtInt(gap.bottom, 5)

C20_Witness ==
  /\ pc = "resolved"
  /\ \E k \in 1 .. Len(placed) :
       /\ placed[k].op = "drawImage"
       /\ Gaps(placed[k], argLayout.nUp).left = RatInt(5)
       /\ RatGtInt(Gaps(placed[k], argLayout.nUp).bottom, 5)
  /\ \E k \in 1 .. Len(placed) :
       /\ placed[k].op = "drawImage"
       /\ placed[k].col = 1
       /\ Gaps(placed[k], argLayout.nUp).bottom = RatInt(5)
       /\ RatGtInt(Gaps(placed[k], argLayout.nUp).left, 5)

\* C21: row 0 is at the top of the sheet: the cell of row r spans y from
\* sheetHeight - margin - (r+1)*cellHeight to sheetHeight - margin -
\* r*cellHeight, a larger row index is strictly lower, and for n in 1..8 the
\* rows 0..rows-1 tile exactly the area between the two margins.
RowBottom(n, r) ==
  RatSub(RatSub(PAGE_HEIGHT, MARGIN),
         RatMul(RatInt(r + 1),
                RatDiv(RatSub(PAGE_HEIGHT, RatAdd(MARGIN, MARGIN)), RatInt(C4_Table(n)[2]))))
RowTop(n, r) ==
  RatSub(RatSub(PAGE_HEIGHT, MARGIN),
         RatMul(RatInt(r),
                RatDiv(RatSub(PAGE_HEIGHT, RatAdd(MARGIN, MARGIN)), RatInt(C4_Table(n)[2]))))

C21_RowsTopDown ==
  LET n == argLayout.nUp
  IN (grid # <<0, 0>> /\ n \in 1 .. 8) =>
       /\ \A r \in 0 .. grid[2] - 1 :
            LET cell == drawRectangleOptions(0, r, grid)
            IN /\ cell.y = RowBottom(n, r)
               /\ RatAdd(cell.y, cell.height) = RowTop(n, r)
               /\ r + 1 < grid[2] =>
                    LET below == drawRectangleOptions(0, r + 1, grid)
                    IN /\ RatAdd(below.y, below.height) = cell.y
                       /\ ~RatLe(cell.y, below.y)
       /\ drawRectangleOptions(0, grid[2] - 1, grid).y = MARGIN
       /\ RatAdd(drawRectangleOptions(0, 0, grid).y, cellHeight(grid))
            = RatSub(PAGE_HEIGHT, MARGIN)
       /\ \A k \in 1 .. Len(placed) :
            /\ RatLe(RowBottom(n, placed[k].row), placed[k].box.y)
            /\ RatLe(RatAdd(placed[k].box.y, placed[k].box.height), RowTop(n, placed[k].row))

C21_Witness ==
  /\ pc = "resolved"
  /\ grid = <<2, 4>>
  /\ \E k \in 1 .. Len(placed) :
       /\ placed[k].op = "drawImage"
       /\ placed[k].row = 2
       /\ RatLtInt(placed[k].box.y, 421)
       /\ RatGtInt(placed[k].box.y, 220)

\* C26: for n in 1..8 the cells of the pages of one sheet are distinct and
\* inside the grid (row < rows, col < cols), so inside the margins of the
\* sheet; the grid has at least n cells and at most one more.
C26_CellsInsideGrid ==
  LET n == argLayout.nUp
  IN (grid # <<0, 0>> /\ n \in 1 .. 8) =>
       /\ grid[1] * grid[2] \in {n, n + 1}
       /\ \A j \in 1 .. chunkIdx :
            LET d == SheetDraws(j)
            IN /\ Len(d) <= n
               /\ \A i \in 1 .. Len(d) :
                    /\ d[i].row = (i - 1) \div grid[1]
                    /\ d[i].col = (i - 1) % grid[1]
                    /\ d[i].row \in 0 .. grid[2] - 1
                    /\ d[i].col \in 0 .. grid[1] - 1
                    /\ \A m \in 1 .. i - 1 : <<d[m].col, d[m].row>> # <<d[i].col, d[i].row>>
       /\ \A k \in 1 .. Len(placed) :
            /\ RatLe(MARGIN, placed[k].box.x)
            /\ RatLe(MARGIN, placed[k].box.y)
            /\ RatLe(RatAdd(placed[k].box.x, placed[k].box.width), RatSub(PAGE_WIDTH, MARGIN))
            /\ RatLe(RatAdd(placed[k].box.y, placed[k].box.height), RatSub(PAGE_HEIGHT, MARGIN))

C26_Witness ==
  /\ pc = "resolved"
  /\ argLayout.nUp = 7
  /\ grid = <<2, 4>>
  /\ Len(SheetDraws(1)) = 7
  /\ SheetDraws(1)[7].col = 0
  /\ SheetDraws(1)[7].row = 3

(* --------------------- properties of the composition ------------------ *)

CanvasOps == {"composeStart", "drawBase", "applyFilters", "drawDoodle", "composeEnd"}
\* the canvas calls made for page id, in order
CanvasCallsOf(id) == SelectSeq(log, LAMBDA e : e.id = id /\ e.op \in CanvasOps)
OpsOf(calls) == [k \in 1 .. Len(calls) |-> calls[k].op]

\* C22: a page with an annotation is composed in the order: base raster
\* drawn rotated by the page's rotation, filters applied to the whole canvas,
\* annotation drawn rotated by the same rotation about the same centre,
\* encode; the filters never run after the annotation is drawn.
C22_AnnotationAfterFilters ==
  \A i \in 1 .. Len(argPages) :
    LET p == argPages[i]
        c == CanvasCallsOf(p.id)
    IN (pc # "idle" /\ p.drawingDataUrl # NoDrawing) =>
         /\ IsPrefix(OpsOf(c),
                     <<"composeStart", "drawBase", "applyFilters", "drawDoodle", "composeEnd">>)
         /\ \A k \in 1 .. Len(c) : \A m \in 1 .. k - 1 :
              ~(c[m].op = "drawDoodle" /\ c[k].op = "applyFilters")
         /\ Len(c) >= 3 =>
              /\ c[2].img.rotation = p.rotation
              /\ c[3].img.filters = p.filters
              /\ c[3].img.width = c[2].img.width
              /\ c[3].img.height = c[2].img.height
         /\ Len(c) >= 4 =>
              /\ c[4].img.rotation = c[2].img.rotation
              /\ c[4].img.width = c[2].img.width
              /\ c[4].img.height = c[2].img.height
              /\ c[4].img.drawing = p.drawingDataUrl
         /\ HasCall("embedJpg", p.id) => Len(c) = 5

C22_Witness ==
  /\ pc = "resolved"
  /\ Len(argPages) >= 3
  /\ argPages[3].isSelected
  /\ argPages[3].drawingDataUrl # NoDrawing
  /\ argPages[3].rotation = 270
  /\ OpsOf(CanvasCallsOf(3))
       = <<"composeStart", "drawBase", "applyFilters", "drawDoodle", "composeEnd">>

\* C23: the output does not depend on layout.showPageNumbers: the calls
\* made are those of the same call with showPageNumbers the other way
\* round, and no call of another kind is made.
C23_OtherLayout == [snapshot.layout EXCEPT !.showPageNumbers = ~snapshot.layout.showPageNumbers]

C23_PageNumbersIgnored ==
  pc # "idle" =>
    /\ \A k \in 1 .. Len(log) : log[k].op \in EncoderOps \cup CanvasOps
    /\ IsPrefix(Calls(EncoderOps), ExpectedCalls(snapshot.pages, C23_OtherLayout))
    /\ pc \in {"save", "resolved"} =>
         Calls(EncoderOps) = ExpectedCalls(snapshot.pages, C23_OtherLayout)
    /\ Len(placed) = Len(Calls({"drawImage", "drawRectangle"}))

C23_Witness ==
  /\ pc = "resolved"
  /\ argLayout.showPageNumbers
  /\ argLayout.showBorders
  /\ argLayout.nUp = 2
  /\ Len(Calls({"addPage"})) = 3
  /\ Len(Calls({"drawImage"})) = 6

(* ---------------------- properties of the download -------------------- *)

\* C27: after every download started in the Dashboard the isGenerating
\* flag eventually returns to false, whether the call succeeded or failed.
C27_FlagEventuallyClears ==
  isGenerating ~> ~isGenerating

\* C28: at most one generateFinalPdf call is in flight: the flag is true
\* for as long as a call is in flight, and a download starts only when no
\* call is in flight.
C28_FlagWhileInFlight == InFlight => isGenerating

C28_StartsWhenIdle == handleDownload => (~InFlight /\ ~isGenerating)

C28_OneCallInFlight == [](C28_FlagWhileInFlight) /\ [][C28_StartsWhenIdle]_vars

C28_Witness ==
  /\ isGenerating
  /\ pc = "embed"
  /\ Len(Calls({"embedJpg"})) = 2
  /\ Len(Calls({"create"})) = 1

(* ------------------- properties of the service worker ---------------- *)

Activated == sw.pc \in {"activated", "match", "network", "responded"}

\* C29: once the activate handler has completed, every cache with a name
\* other than 'pdfbhai-v1' is gone, and the current cache was not deleted: it
\* exists and still answers the precached assets.
C29_OnlyCurrentCacheLeft ==
  Activated =>
    /\ sw.names = {CACHE_NAME}
    /\ sw.pending = {}
    /\ CACHE_NAME \notin sw.deleted
    /\ ASSETS_TO_CACHE \subseteq sw.stored

C29_Witness ==
  /\ sw.pc = "activated"
  /\ sw.deleted = OldCaches
  /\ sw.names = {CACHE_NAME}

\* C30: a fetch event is answered network first: when the network request
\* succeeded the page got the network response, and it got the cached
\* response only when the network request failed.
C30_NetworkFirst ==
  /\ (sw.net = "ok" /\ sw.delivered # "none") => sw.delivered = "network"
  /\ (sw.delivered = "cache") => sw.net = "failed"

(* --------------------- properties of the list editors ----------------- *)

Rotations == {0, 90, 180, 270}

\* C24: rotatePage and rotateAll(90) keep every rotation in {0, 90, 180,
\* 270}; rotatePage changes only the rotation of the page with the given
\* id; and four rotations of a page bring it back to where it started.
C24_RotatePageStep ==
  \A id \in PageIds :
    rotatePage(id) =>
      /\ Len(pages') = Len(pages)
      /\ \A i \in 1 .. Len(pages) :
           /\ pages[i].id # id => pages'[i] = pages[i]
           /\ pages[i].id = id =>
                /\ [pages'[i] EXCEPT !.rotation = pages[i].rotation] = pages[i]
                /\ pages'[i].rotation # pages[i].rotation

C24_FourTurns ==
  \A i \in 1 .. Len(pages) :
    /\ pages[i].rotation \in Rotations
    /\ nextRotation(nextRotation(nextRotation(nextRotation(pages[i].rotation))))
         = pages[i].rotation
    /\ \A t \in 1 .. 3 :
         LET turned == [k \in 0 .. 3 |->
                          IF k = 0 THEN pages[i].rotation
                          ELSE IF k = 1 THEN nextRotation(pages[i].rotation)
                          ELSE IF k = 2 THEN nextRotation(nextRotation(pages[i].rotation))
                          ELSE nextRotation(nextRotation(nextRotation(pages[i].rotation)))]
         IN turned[t] # pages[i].rotation /\ turned[t] \in Rotations

C24_RotationsStayValid == [](C24_FourTurns) /\ [][C24_RotatePageStep]_vars

C24_Witness ==
  /\ edits = 4
  /\ Len(pages) = 2
  /\ pages[1].rotation = 90
  /\ pages[2].rotation = 180

\* C25: a drag-end, a drop with nothing under the pointer included, leaves
\* a permutation of the list: same length, same ids with no duplicate, every
\* page otherwise unchanged; a drop on the dragged item itself changes
\* nothing.
C25_DistinctIds ==
  \A i, j \in 1 .. Len(pages) : (i # j) => pages[i].id # pages[j].id

C25_DragStep ==
  \A a \in PageIds, o \in PageIds \cup {0} :
    handleDragEnd(a, o) =>
      /\ Len(pages') = Len(pages)
      /\ \A i \in 1 .. Len(pages) :
           Cardinality({j \in 1 .. Len(pages) : pages'[j] = pages[i]}) = 1
      /\ (a = o) => pages' = pages
      /\ (o = 0 /\ Len(pages) > 1) =>
           /\ pages'[Len(pages)].id = a
           /\ SelectSeq(pages', LAMBDA p : p.id # a) = SelectSeq(pages, LAMBDA p : p.id # a)

C25_DragPermutes == [](C25_DistinctIds) /\ [][C25_DragStep]_vars

C25_Witness ==
  /\ edits = 2
  /\ Len(pages) = 3
  /\ pages[1].id = 3
  /\ pages[2].id = 2
  /\ pages[3].id = 1
  /\ pages[3].rotation = 90

(* ------------------- properties of the filter transform --------------- *)

IsNeutral(f) == ~f.invert /\ ~f.grayscale /\ f.whiteness = 0 /\ f.blackness = 0
InvertOnly(f) == f.invert /\ ~f.grayscale /\ f.whiteness = 0 /\ f.blackness = 0
PixelsOf(c) == 0 .. (c.width * c.height - 1)
\* sample ch (1 = R, 2 = G, 3 = B, 4 = A) of pixel j (0-based) of a canvas
Sample(c, j, ch) == c.data[4 * j + ch]

\* C12: with the neutral configuration the transform leaves every sample
\* of every pixel exactly as it was, however many times it is applied.
C12_NeutralIsIdentity ==
  IsNeutral(filterCfg) => canvas = original

C12_Witness ==
  /\ IsNeutral(filterCfg)
  /\ applies = MaxApplies
  /\ canvas.width = 2
  /\ canvas.data[1] = 200

\* C13: invert applied twice, the other filters neutral, gives back the
\* original bitmap exactly; once, it gives 255 - c in every colour sample.
C13_InvertTwiceIsIdentity ==
  InvertOnly(filterCfg) =>
    /\ applies = 2 => canvas = original
    /\ applies = 1 =>
         \A j \in PixelsOf(canvas), ch \in 1 .. 3 :
           Sample(canvas, j, ch) = 255 - Sample(original, j, ch)

C13_Witness ==
  /\ InvertOnly(filterCfg)
  /\ applies = 2
  /\ original.data[1] = 0
  /\ input.data[1] = 255
  /\ canvas.data[1] = 0

\* C14: with grayscale enabled every output pixel has R = G = B, whatever
\* the input pixel and the other filters.
C14_GrayscaleEqualChannels ==
  (filterCfg.grayscale /\ applies >= 1) =>
    \A j \in PixelsOf(canvas) :
      /\ Sample(canvas, j, 1) = Sample(canvas, j, 2)
      /\ Sample(canvas, j, 2) = Sample(canvas, j, 3)

C14_Witness ==
  /\ filterCfg.grayscale
  /\ filterCfg.invert
  /\ filterCfg.whiteness = 12
  /\ applies = 1
  /\ Sample(input, 0, 1) # Sample(input, 0, 2)
  /\ Sample(canvas, 0, 1) \in 1 .. 254

\* C15: every value the transform assigns to a colour sample lies in
\* [0, 255], for every pixel and configuration, whiteness and blackness at
\* 0, at 100 and beyond included.
C15_WrittenValuesInRange ==
  /\ \A w \in 1 .. Len(written) :
       /\ ~RatLtInt(written[w].value, 0)
       /\ ~RatGtInt(written[w].value, 255)
  /\ \A k \in 1 .. Len(canvas.data) : canvas.data[k] \in 0 .. 255

C15_Witness ==
  /\ filterCfg.whiteness = 200
  /\ filterCfg.blackness = 200
  /\ applies = 1
  /\ written[1].value = <<0, 1>>
  /\ written[3].value = <<255, 1>>
  /\ input.data[1] = 0

\* C18: per pixel the steps are grayscale, invert, brightness, contrast and
\* one clamp at the end, each on the value the previous step produced.
C18_Luma(c, j) ==
  RatAdd(RatAdd(Rat(299 * Sample(c, j, 1), 1000), Rat(587 * Sample(c, j, 2), 1000)),
         Rat(114 * Sample(c, j, 3), 1000))

C18_Channel(c, j, ch, f) ==
  LET s0 == RatInt(Sample(c, j, ch))
      s1 == IF f.grayscale THEN C18_Luma(c, j) ELSE s0
      s2 == IF f.invert THEN RatSub(RatInt(255), s1) ELSE s1
      s3 == RatMul(s2, Rat(100 + f.whiteness, 100))
      s4 == RatAdd(RatMul(s3, Rat(100 + f.blackness, 100)),
                   RatMul(RatInt(128), RatSub(RatInt(1), Rat(100 + f.blackness, 100))))
  IN IF RatLtInt(s4, 0) THEN RatInt(0)
     ELSE IF RatGtInt(s4, 255) THEN RatInt(255) ELSE s4

C18_StepsInOrder ==
  applies >= 1 =>
    /\ Len(written) = 3 * canvas.width * canvas.height
    /\ \A j \in PixelsOf(input), ch \in 1 .. 3 :
         /\ written[3 * j + ch].index = 4 * j + ch - 1
         /\ written[3 * j + ch].value = C18_Channel(input, j, ch, filterCfg)

C18_Witness ==
  /\ applies = 1
  /\ filterCfg.grayscale
  /\ filterCfg.invert
  /\ filterCfg.whiteness = 12
  /\ filterCfg.blackness = 50
  /\ written[1].value[2] > 1
  /\ RatGtInt(written[1].value, 0)
  /\ RatLtInt(written[1].value, 255)

\* C19: the transform never changes an alpha sample nor the dimensions of
\* the bitmap.
C19_AlphaAndSizeKept ==
  /\ canvas.width = original.width
  /\ canvas.height = original.height
  /\ Len(canvas.data) = Len(original.data)
  /\ \A j \in PixelsOf(original) : Sample(canvas, j, 4) = Sample(original, j, 4)
  /\ \A w \in 1 .. Len(written) : written[w].index % 4 # 3

C19_Witness ==
  /\ applies = MaxApplies
  /\ canvas.width = 2
  /\ filterCfg.invert
  /\ filterCfg.blackness = 100
  /\ Sample(canvas, 0, 1) # Sample(original, 0, 1)
  /\ Sample(canvas, 1, 4) = 100

====
